---- MODULE Spec2Model ----
(***************************************************************************)
(* Model of NQubitALU.py: the reversible HalfAdder and FullAdder gates,    *)
(* the hard-wired TwoQubitALU and the N-bit ripple-carry NQubitALU.        *)
(* A circuit is first built (its instruction list `data` is appended to    *)
(* in construction order), then its wires are seeded with classical basis  *)
(* values and the instructions are applied one at a time.                  *)
(***************************************************************************)
EXTENDS Integers, Sequences, FiniteSets

VARIABLES circuit, size, num_qubits, data, pc, idx, val, input, ip, run

vars == <<circuit, size, num_qubits, data, pc, idx, val, input, ip, run>>

\* ---- bounds of the model ------------------------------------------------
MaxN == 3
MaxAnc == 4
MaxSB == 2

\* ---- program constants --------------------------------------------------
NumAncilla == 3
ResetRepeat == 10

Bit == {0, 1}

\* ---- wires and registers ------------------------------------------------
\* A wire is <<register name, offset>>; offsets start at 0 as in the source.
RegNames == {"A", "B", "S", "SB", "C", "Anc", "q"}

Wires(sz) == {<<r, i>> : r \in RegNames, i \in 0..(MaxN + MaxAnc + 8)} \cap
             UNION {{<<r, i>> : i \in 0..(sz[r] - 1)} : r \in RegNames}

Sizes(a, b, s, sb, c, anc, q) ==
    [A |-> a, B |-> b, S |-> s, SB |-> sb, C |-> c, Anc |-> anc, q |-> q]

\* ---- primitive instructions ---------------------------------------------
cx(c, t) == [gate |-> "cx", qargs |-> <<c, t>>]
ccx(c1, c2, t) == [gate |-> "ccx", qargs |-> <<c1, c2, t>>]
swap(a, b) == [gate |-> "swap", qargs |-> <<a, b>>]
reset1(w) == [gate |-> "reset", qargs |-> <<w>>]
append(name, qargs) == [gate |-> name, qargs |-> qargs]

\* reset(list): one reset instruction per element of the list
reset(w, times) == [k \in 1..times |-> reset1(w)]

q(k) == <<"q", k>>

\* ---- gate definitions ---------------------------------------------------
HalfAdderDefCarryToSum ==
    << cx(q(0), q(2)), cx(q(1), q(2)), ccx(q(0), q(1), q(2)) >>

HalfAdderDef ==
    << cx(q(0), q(2)), cx(q(1), q(2)), ccx(q(0), q(1), q(3)) >>

\* the sequence written in FullAdder's docstring (cx cin, cout; cx sum, cout)
FullAdderDefDocstring ==
    << cx(q(0), q(5)), cx(q(1), q(5)),
       cx(q(2), q(3)), cx(q(4), q(3)),
       ccx(q(0), q(1), q(6)),
       ccx(q(2), q(5), q(7)),
       cx(q(7), q(3)), cx(q(6), q(3)), ccx(q(7), q(6), q(3)) >>

\* second AND taken from (cin, b) instead of (cin, a XOR b)
FullAdderDefWrongAnd ==
    << cx(q(0), q(5)), cx(q(1), q(5)),
       cx(q(2), q(4)), cx(q(5), q(4)),
       ccx(q(0), q(1), q(6)),
       ccx(q(2), q(1), q(7)),
       cx(q(7), q(3)), cx(q(6), q(3)), ccx(q(7), q(6), q(3)) >>

FullAdderDef ==
    << cx(q(0), q(5)), cx(q(1), q(5)),
       cx(q(2), q(4)), cx(q(5), q(4)),
       ccx(q(0), q(1), q(6)),
       ccx(q(2), q(5), q(7)),
       cx(q(7), q(3)), cx(q(6), q(3)), ccx(q(7), q(6), q(3)) >>

\* instantiate a definition: slot q(k) is bound to qargs[k+1]
Bind(op, qargs) ==
    [gate |-> op.gate,
     qargs |-> [j \in DOMAIN op.qargs |-> qargs[op.qargs[j][2] + 1]]]

Expand(op) == [k \in DOMAIN FullAdderDef |-> Bind(FullAdderDef[k], op.qargs)]

\* ---- classical (basis-state) semantics of the instructions --------------
ApplyPrim(op, v) ==
    CASE op.gate = "cx" ->
           [v EXCEPT ![op.qargs[2]] = (v[op.qargs[2]] + v[op.qargs[1]]) % 2]
      [] op.gate = "ccx" ->
           [v EXCEPT ![op.qargs[3]] =
               (v[op.qargs[3]] + v[op.qargs[1]] * v[op.qargs[2]]) % 2]
      [] op.gate = "swap" ->
           [v EXCEPT ![op.qargs[1]] = v[op.qargs[2]],
                     ![op.qargs[2]] = v[op.qargs[1]]]
      [] op.gate = "reset" ->
           [v EXCEPT ![op.qargs[1]] = 0]

RECURSIVE RunPrims(_, _)
RunPrims(ops, v) ==
    IF ops = <<>> THEN v ELSE RunPrims(Tail(ops), ApplyPrim(Head(ops), v))

ApplyOp(op, v) ==
    IF op.gate = "fullAdder" THEN RunPrims(Expand(op), v) ELSE ApplyPrim(op, v)

RECURSIVE RunOps(_, _)
RunOps(ops, v) ==
    IF ops = <<>> THEN v ELSE RunOps(Tail(ops), ApplyOp(Head(ops), v))

\* ---- NQubitALU._build ---------------------------------------------------
NegateBitOpsNoControl(i) ==
    << cx(<<"B", i>>, <<"Anc", 0>>) >>
    \o << swap(<<"B", i>>, <<"Anc", 0>>) >>
    \o reset(<<"Anc", 0>>, 1)

NegateBitOpsSwapSB(i) ==
    << cx(<<"B", i>>, <<"Anc", 0>>),
       cx(<<"SB", 0>>, <<"Anc", 0>>),
       swap(<<"SB", 0>>, <<"Anc", 0>>) >>
    \o reset(<<"Anc", 0>>, 1)

NegateBitOpsNoReset(i) ==
    << cx(<<"B", i>>, <<"Anc", 0>>),
       cx(<<"SB", 0>>, <<"Anc", 0>>),
       swap(<<"B", i>>, <<"Anc", 0>>) >>

\* body of the loop over B_index
NegateBitOps(i) ==
    << cx(<<"B", i>>, <<"Anc", 0>>),
       cx(<<"SB", 0>>, <<"Anc", 0>>),
       swap(<<"B", i>>, <<"Anc", 0>>) >>
    \o reset(<<"Anc", 0>>, 1)

AdderQargs(i, cin) ==
    << <<"A", i>>, <<"B", i>>, cin, <<"C", i>>, <<"S", i>>,
       <<"Anc", 0>>, <<"Anc", 1>>, <<"Anc", 2>> >>

AdderStageOpsMissingReset(i) ==
    << append("fullAdder",
              AdderQargs(i, IF i = 0 THEN <<"SB", 0>> ELSE <<"C", i - 1>>)) >>
    \o reset(<<"Anc", 0>>, 1) \o reset(<<"Anc", 1>>, 1)

AdderStageOpsFirstCarry(i) ==
    << append("fullAdder",
              AdderQargs(i, IF i = 0 THEN <<"SB", 0>> ELSE <<"C", 0>>)) >>
    \o reset(<<"Anc", 0>>, 1) \o reset(<<"Anc", 1>>, 1)
    \o reset(<<"Anc", 2>>, 1)

\* body of the loop over A_index (both branches of the if)
AdderStageOps(i) ==
    << append("fullAdder",
              AdderQargs(i, IF i = 0 THEN <<"SB", 0>> ELSE <<"C", i - 1>>)) >>
    \o reset(<<"Anc", 0>>, 1) \o reset(<<"Anc", 1>>, 1)
    \o reset(<<"Anc", 2>>, 1)

\* every register index evaluated by stage i is in range and the SB register
\* broadcasts to exactly one qubit
AdderArgsValid(i) ==
    /\ i < size.B /\ i < size.C /\ i < size.S
    /\ size.Anc >= 3
    /\ (i = 0 => size.SB = 1)

\* ---- TwoQubitALU.__init__ -----------------------------------------------
\* layout (a0, a1, b0, b1, s0, s1, c0, c1, sb, ancilla1, ancilla2, ancilla3)
Layout ==
    << <<"A", 0>>, <<"A", 1>>, <<"B", 0>>, <<"B", 1>>, <<"S", 0>>, <<"S", 1>>,
       <<"C", 0>>, <<"C", 1>>, <<"SB", 0>>,
       <<"Anc", 0>>, <<"Anc", 1>>, <<"Anc", 2>> >>

Q2(k) == Layout[k + 1]

TwoQubitALUDataWrongCarry ==
    << cx(Q2(2), Q2(9)), cx(Q2(8), Q2(9)), swap(Q2(2), Q2(9)) >>
    \o reset(Q2(9), ResetRepeat)
    \o << cx(Q2(3), Q2(10)), cx(Q2(8), Q2(10)), swap(Q2(3), Q2(10)) >>
    \o reset(Q2(10), ResetRepeat)
    \o << append("fullAdder",
            [k \in 1..8 |-> Q2(<<0, 2, 8, 6, 4, 9, 10, 11>>[k])]) >>
    \o reset(Q2(9), ResetRepeat) \o reset(Q2(10), ResetRepeat)
    \o reset(Q2(11), ResetRepeat)
    \o << append("fullAdder",
            [k \in 1..8 |-> Q2(<<1, 3, 8, 7, 5, 9, 10, 11>>[k])]) >>
    \o reset(Q2(9), ResetRepeat) \o reset(Q2(10), ResetRepeat)
    \o reset(Q2(11), ResetRepeat)

TwoQubitALUData ==
    << cx(Q2(2), Q2(9)), cx(Q2(8), Q2(9)), swap(Q2(2), Q2(9)) >>
    \o reset(Q2(9), ResetRepeat)
    \o << cx(Q2(3), Q2(10)), cx(Q2(8), Q2(10)), swap(Q2(3), Q2(10)) >>
    \o reset(Q2(10), ResetRepeat)
    \o << append("fullAdder",
            [k \in 1..8 |-> Q2(<<0, 2, 8, 6, 4, 9, 10, 11>>[k])]) >>
    \o reset(Q2(9), ResetRepeat) \o reset(Q2(10), ResetRepeat)
    \o reset(Q2(11), ResetRepeat)
    \o << append("fullAdder",
            [k \in 1..8 |-> Q2(<<1, 3, 6, 7, 5, 9, 10, 11>>[k])]) >>
    \o reset(Q2(9), ResetRepeat) \o reset(Q2(10), ResetRepeat)
    \o reset(Q2(11), ResetRepeat)

\* ---- state machine ------------------------------------------------------
Circuits == {"HalfAdder", "FullAdder", "TwoQubitALU", "NQubitALU", "NegateStage"}

Zero(sz) == [w \in Wires(sz) |-> 0]

Init ==
    /\ circuit \in Circuits
    /\ size \in
         CASE circuit = "HalfAdder" -> {Sizes(0, 0, 0, 0, 0, 0, 4)}
           [] circuit = "FullAdder" -> {Sizes(0, 0, 0, 0, 0, 0, 8)}
           [] circuit = "TwoQubitALU" -> {Sizes(2, 2, 2, 1, 2, 3, 0)}
           [] circuit = "NegateStage" ->
                {Sizes(0, b, 0, 1, 0, NumAncilla, 0) : b \in 1..MaxN}
           [] circuit = "NQubitALU" ->
                {Sizes(a, b, s, sb, c, anc, 0) :
                    a \in 1..MaxN, b \in 1..MaxN, s \in 1..MaxN,
                    sb \in 0..MaxSB, c \in 1..MaxN, anc \in 0..MaxAnc}
    /\ num_qubits = IF circuit = "NQubitALU" THEN <<size.A>> ELSE <<>>
    /\ data = <<>>
    /\ pc = CASE circuit = "NQubitALU" -> "check"
              [] circuit = "NegateStage" -> "negate"
              [] OTHER -> "define"
    /\ idx = 0
    /\ val = Zero(size)
    /\ input = Zero(size)
    /\ ip = 0
    /\ run = 0

\* NQubitALU._check_configuration: only the unset input register is rejected
CheckConfiguration ==
    /\ circuit = "NQubitALU" /\ pc = "check"
    /\ pc' = IF num_qubits = <<>> THEN "error" ELSE "negate"
    /\ UNCHANGED <<circuit, size, num_qubits, data, idx, val, input, ip, run>>

\* one iteration of the loop over B_index
NegateBit ==
    /\ circuit \in {"NQubitALU", "NegateStage"} /\ pc = "negate"
    /\ IF size.Anc = 0
         THEN data' = data /\ pc' = "error" /\ idx' = idx
         ELSE IF size.SB = 0
           THEN /\ data' = data \o SubSeq(NegateBitOps(idx), 1, 1)
                /\ pc' = "error" /\ idx' = idx
           ELSE /\ data' = data \o NegateBitOps(idx)
                /\ IF idx + 1 < size.B
                     THEN idx' = idx + 1 /\ pc' = pc
                     ELSE /\ idx' = 0
                          /\ pc' = IF circuit = "NQubitALU" THEN "adder"
                                                             ELSE "built"
    /\ UNCHANGED <<circuit, size, num_qubits, val, input, ip, run>>

\* one iteration of the loop over A_index
AdderStage ==
    /\ circuit = "NQubitALU" /\ pc = "adder"
    /\ IF AdderArgsValid(idx)
         THEN /\ data' = data \o AdderStageOps(idx)
              /\ IF idx + 1 < size.A
                   THEN idx' = idx + 1 /\ pc' = pc
                   ELSE idx' = 0 /\ pc' = "built"
         ELSE data' = data /\ pc' = "error" /\ idx' = idx
    /\ UNCHANGED <<circuit, size, num_qubits, val, input, ip, run>>

DefineHalfAdder ==
    /\ circuit = "HalfAdder" /\ pc = "define"
    /\ data' = HalfAdderDef /\ pc' = "built"
    /\ UNCHANGED <<circuit, size, num_qubits, idx, val, input, ip, run>>

DefineFullAdder ==
    /\ circuit = "FullAdder" /\ pc = "define"
    /\ data' = FullAdderDef /\ pc' = "built"
    /\ UNCHANGED <<circuit, size, num_qubits, idx, val, input, ip, run>>

BuildTwoQubitALU ==
    /\ circuit = "TwoQubitALU" /\ pc = "define"
    /\ data' = TwoQubitALUData /\ pc' = "built"
    /\ UNCHANGED <<circuit, size, num_qubits, idx, val, input, ip, run>>

\* wires seeded by the caller; every other wire starts in the 0 state
FreeWires ==
    IF circuit \in {"HalfAdder", "FullAdder"}
      THEN Wires(size)
      ELSE {w \in Wires(size) : w[1] \in {"A", "B", "SB"}}

Initialize ==
    /\ pc = "built"
    /\ \E f \in [FreeWires -> Bit] :
          val' = [w \in Wires(size) |-> IF w \in FreeWires THEN f[w] ELSE 0]
    /\ input' = val'
    /\ pc' = "run" /\ ip' = 1 /\ run' = 1
    /\ UNCHANGED <<circuit, size, num_qubits, data, idx>>

\* the simulator applies the next instruction of the circuit
ExecStep ==
    /\ pc = "run" /\ ip <= Len(data)
    /\ val' = ApplyOp(data[ip], val)
    /\ ip' = ip + 1
    /\ pc' = IF ip = Len(data) THEN "done" ELSE "run"
    /\ UNCHANGED <<circuit, size, num_qubits, data, idx, input, run>>

\* the negate stage is applied a second time to its own output
Rerun ==
    /\ circuit = "NegateStage" /\ pc = "done" /\ run < 2
    /\ run' = run + 1 /\ ip' = 1 /\ pc' = "run"
    /\ UNCHANGED <<circuit, size, num_qubits, data, idx, val, input>>

Next ==
    \/ CheckConfiguration
    \/ NegateBit
    \/ AdderStage
    \/ DefineHalfAdder
    \/ DefineFullAdder
    \/ BuildTwoQubitALU
    \/ Initialize
    \/ ExecStep
    \/ Rerun

Spec == Init /\ [][Next]_vars

\* ---- arithmetic reading of a register -----------------------------------
RECURSIVE Pow2(_)
Pow2(n) == IF n = 0 THEN 1 ELSE 2 * Pow2(n - 1)

RECURSIVE RegValue(_, _, _)
RegValue(r, n, v) ==
    IF n = 0 THEN 0 ELSE v[<<r, n - 1>>] * Pow2(n - 1) + RegValue(r, n - 1, v)

Xor(x, y) == (x + y) % 2

Maj(x, y, z) == IF x + y + z >= 2 THEN 1 ELSE 0

ValidWidths ==
    /\ size.B = size.A /\ size.S = size.A /\ size.C = size.A
    /\ size.SB = 1 /\ size.Anc = NumAncilla

\* the run of a valid NQubitALU has ended
ALUDone == circuit = "NQubitALU" /\ pc = "done" /\ ValidWidths

\* B XOR (SB broadcast to n bits), as a number
NegatedB(n, v) ==
    IF v[<<"SB", 0>>] = 1 THEN Pow2(n) - 1 - RegValue("B", n, v)
                          ELSE RegValue("B", n, v)

IsExample(sb) ==
    /\ size.A = 3
    /\ RegValue("A", 3, input) = 1 /\ RegValue("B", 3, input) = 1
    /\ input[<<"SB", 0>>] = sb

C6_HalfAdder ==
    (/\ circuit = "HalfAdder" /\ pc = "done"
     /\ input[q(2)] = 0 /\ input[q(3)] = 0) =>
      /\ val[q(2)] = Xor(input[q(0)], input[q(1)])
      /\ val[q(3)] = input[q(0)] * input[q(1)]
      /\ val[q(0)] = input[q(0)] /\ val[q(1)] = input[q(1)]

C6_Witness ==
    /\ circuit = "HalfAdder" /\ pc = "done"
    /\ input[q(2)] = 0 /\ input[q(3)] = 0
    /\ input[q(0)] = 1 /\ input[q(1)] = 1
    /\ val[q(3)] = 1

\* ---- C4: conditional-negate stage ---------------------------------------
\* number of bits of the negate stage completed in the current run
BitsNegated == (ip - 1) \div 4

AtBitBoundary == pc \in {"run", "done"} /\ (ip - 1) % 4 = 0

\* C4: after every bit of the negate stage the shared scratch wire is 0 and
\* the bit holds old B[i] XOR SB; a second run with the same SB restores B.
C4_NegateStage ==
    (circuit = "NegateStage" /\ AtBitBoundary) =>
      /\ val[<<"Anc", 0>>] = 0
      /\ val[<<"SB", 0>>] = input[<<"SB", 0>>]
      /\ \A i \in 0..(size.B - 1) :
           val[<<"B", i>>] =
             IF (run = 1) = (i < BitsNegated)
               THEN Xor(input[<<"B", i>>], input[<<"SB", 0>>])
               ELSE input[<<"B", i>>]
      /\ (pc = "done" /\ run = 2 =>
            \A i \in 0..(size.B - 1) : val[<<"B", i>>] = input[<<"B", i>>])

C4_Witness ==
    /\ circuit = "NegateStage" /\ pc = "done" /\ run = 2
    /\ size.B = MaxN
    /\ input[<<"SB", 0>>] = 1 /\ input[<<"B", 0>>] = 1 /\ input[<<"B", 1>>] = 0
    /\ val[<<"B", 0>>] = 1 /\ val[<<"B", 1>>] = 0

\* ---- C5: configuration check --------------------------------------------
InvalidWidths == circuit = "NQubitALU" /\ ~ValidWidths

\* C5 (as stated): with invalid register widths the construction fails before
\* any gate or reset is appended: it never completes and the program stays
\* empty.
C5_Original ==
    InvalidWidths => (data = <<>> /\ pc \notin {"built", "run", "done"})

\* ---- C7: scratch wires --------------------------------------------------
AncillasZero == \A k \in 0..(NumAncilla - 1) : val[<<"Anc", k>>] = 0

\* C7: the three ancilla wires are 0 at the entry of every FullAdder
\* instantiation, ancilla[0] is 0 at the entry of every bit of the negate
\* stage, and all three are 0 when the program ends.
C7_ScratchZero ==
    (circuit = "NQubitALU" /\ pc \in {"run", "done"}) =>
      /\ (pc = "run" /\ data[ip].gate = "fullAdder" => AncillasZero)
      /\ (pc = "run" /\ ip <= 4 * size.B /\ (ip - 1) % 4 = 0 =>
            val[<<"Anc", 0>>] = 0)
      /\ (pc = "done" => AncillasZero)

\* stage 1 is entered after stage 0 left a nonzero scratch value to reset
C7_Witness ==
    /\ circuit = "NQubitALU" /\ pc = "run" /\ ValidWidths
    /\ data[ip].gate = "fullAdder"
    /\ data[ip].qargs[1] = <<"A", 1>>
    /\ input[<<"A", 0>>] = 1 /\ input[<<"B", 0>>] = 1
    /\ input[<<"SB", 0>>] = 0
    /\ AncillasZero

\* ---- C8, C9: wires written and read by an instruction -------------------
PrimTargets(op) ==
    CASE op.gate = "cx" -> {op.qargs[2]}
      [] op.gate = "ccx" -> {op.qargs[3]}
      [] op.gate = "swap" -> {op.qargs[1], op.qargs[2]}
      [] op.gate = "reset" -> {op.qargs[1]}

PrimControls(op) ==
    CASE op.gate = "cx" -> {op.qargs[1]}
      [] op.gate = "ccx" -> {op.qargs[1], op.qargs[2]}
      [] OTHER -> {}

Targets(op) ==
    IF op.gate = "fullAdder"
      THEN UNION {PrimTargets(Expand(op)[k]) : k \in DOMAIN FullAdderDef}
      ELSE PrimTargets(op)

Controls(op) ==
    IF op.gate = "fullAdder"
      THEN UNION {PrimControls(Expand(op)[k]) : k \in DOMAIN FullAdderDef}
      ELSE PrimControls(op)

ReadOnly(w) == w[1] \in {"A", "SB"}

\* C8: no instruction of the NQubitALU program targets SB or a wire of A, and
\* after any prefix of the program their values are the initial ones.
C8_ReadOnly ==
    circuit = "NQubitALU" =>
      /\ \A k \in 1..Len(data) : \A w \in Targets(data[k]) : ~ReadOnly(w)
      /\ (pc \in {"run", "done"} =>
            \A w \in Wires(size) : ReadOnly(w) => val[w] = input[w])

C8_Witness ==
    /\ circuit = "NQubitALU" /\ pc = "done" /\ ValidWidths /\ size.A = MaxN
    /\ \A w \in Wires(size) : ReadOnly(w) => (input[w] = 1 /\ val[w] = 1)

\* position in data of the FullAdder of stage i
StagePos(i) == 4 * size.B + 4 * i + 1

\* C9: C[i] is written only by stage i's FullAdder and read only by stage
\* i+1's; the program is the negate stage, then stage 0, 1, ... in order, each
\* FullAdder followed by its three ancilla resets; writes precede reads.
C9_CarryChain ==
    (circuit = "NQubitALU" /\ pc = "built") =>
      /\ Len(data) = 4 * size.B + 4 * size.A
      /\ \A k \in 1..(4 * size.B) : data[k].gate # "fullAdder"
      /\ \A i \in 0..(size.A - 1) :
           /\ data[StagePos(i)].gate = "fullAdder"
           /\ data[StagePos(i)].qargs[1] = <<"A", i>>
           /\ data[StagePos(i)].qargs[4] = <<"C", i>>
           /\ \A j \in 1..3 : data[StagePos(i) + j] = reset1(<<"Anc", j - 1>>)
           /\ \A k \in 1..Len(data) :
                /\ <<"C", i>> \in Targets(data[k]) => k = StagePos(i)
                /\ <<"C", i>> \in Controls(data[k]) =>
                     (i + 1 < size.A /\ k = StagePos(i + 1))
           /\ \A k1, k2 \in 1..Len(data) :
                (/\ <<"C", i>> \in Targets(data[k1])
                 /\ <<"C", i>> \in Controls(data[k2])) => k1 < k2

C9_Witness ==
    /\ circuit = "NQubitALU" /\ pc = "built" /\ ValidWidths /\ size.A = MaxN
    /\ <<"C", 1>> \in Targets(data[StagePos(1)])
    /\ <<"C", 1>> \in Controls(data[StagePos(2)])

\* ---- C10: TwoQubitALU against NQubitALU with N = 2 ----------------------
RECURSIVE Flatten(_)
Flatten(ss) == IF ss = <<>> THEN <<>> ELSE Head(ss) \o Flatten(Tail(ss))

\* the program NQubitALU._build appends for registers of widths (n,n,n,1,n,3)
NQubitALUData(n) ==
    Flatten([i \in 1..n |-> NegateBitOps(i - 1)])
    \o Flatten([i \in 1..n |-> AdderStageOps(i - 1)])

\* the builder's actions append exactly NQubitALUData
BuildMatchesData ==
    (circuit = "NQubitALU" /\ pc = "built" /\ ValidWidths) =>
       data = NQubitALUData(size.A)

\* C10: for every input the TwoQubitALU program ends with the same values of
\* A, B, S, C, SB as NQubitALU with N=2, and with the three ancillas at 0.
C10_TwoQubitEquiv ==
    (circuit = "TwoQubitALU" /\ pc = "done") =>
      /\ val = RunOps(NQubitALUData(2), input)
      /\ AncillasZero

C10_Witness ==
    /\ circuit = "TwoQubitALU" /\ pc = "done"
    /\ RegValue("A", 2, input) = 3 /\ RegValue("B", 2, input) = 1
    /\ input[<<"SB", 0>>] = 0
    /\ RegValue("S", 2, val) = 0 /\ val[<<"C", 1>>] = 1

====
